---- MODULE Spec2Model ----
(***************************************************************************)
(* Offline write queue and optimistic cache of the browser client:        *)
(* apiRequest / handleError, OfflineSync and ClientService (api.js and    *)
(* clientService.js).  One JavaScript event loop: an action is the code   *)
(* that runs between two I/O suspension points.  The continuation of an   *)
(* await on an already settled promise runs in the same task, before any  *)
(* response or connectivity event, and belongs to the same action.        *)
(***************************************************************************)
EXTENDS Integers, Sequences, FiniteSets, TLC

\* ------------------------------------------------------------------ bounds
MaxCalls == 2      \* ClientService mutations issued in a run
MaxClock == 1      \* last value of Date.now()
MaxListeners == 2  \* listeners registered with one service at a time
MaxPending == 2    \* requests of AuthService in flight at a time
MaxLoads == 2      \* notifications by the reads of ClientService in a run

Names == <<"Acme", "Oak">>
Kinds == {"create", "update", "delete"}

\* ------------------------------------------------------------ identifiers
TempId(t) == <<"temp", t>>
ServerId(n) == <<"srv", n>>
NoId == <<"none", 0>>
IsTempId(id) == id[1] = "temp"

NoClient == [_id |-> NoId, name |-> "", _isTemp |-> FALSE]

\* ------------------------------------------------------- sequence helpers
RECURSIVE SelectIdx(_, _, _)
\* Array.prototype.findIndex: first index whose record has _id = id, 0 for -1
SelectIdx(cs, id, i) ==
  IF i > Len(cs) THEN 0
  ELSE IF cs[i]._id = id THEN i ELSE SelectIdx(cs, id, i + 1)

findIndex(cs, id) == SelectIdx(cs, id, 1)

\* Array.prototype.filter(client => client._id !== id)
filterOut(cs, id) == SelectSeq(cs, LAMBDA c : c._id # id)

\* ----------------------------------------------------------- Remote Client
\* A response of the backend as fetch sees it: code 0 is "fetch rejected, no
\* response"; json says whether response.json() parses the body.
\* The backend accepts a request only on a path without a temp_ identifier
\* (findByIdAndUpdate / findByIdAndDelete throw on it and the handler answers 400).
Responses(e) ==
  {[code |-> 0, json |-> FALSE]}
  \cup {[code |-> c, json |-> TRUE] : c \in {400, 500}}
  \cup (IF e.method = "POST" THEN {[code |-> 201, json |-> TRUE]} ELSE {})
  \cup (IF e.method = "PATCH" /\ ~IsTempId(e.endpoint.id)
         THEN {[code |-> 200, json |-> TRUE]} ELSE {})
  \cup (IF e.method = "DELETE" /\ ~IsTempId(e.endpoint.id)
         THEN {[code |-> 204, json |-> FALSE]} ELSE {})

ok(r) == r.code >= 200 /\ r.code <= 299

\* handleError: error.response -> its status; otherwise statusCode 0
handleError(r) ==
  IF r.code # 0 /\ r.json
    THEN [status |-> "error", statusCode |-> r.code, client |-> NoClient]
    ELSE [status |-> "error", statusCode |-> 0, client |-> NoClient]

\* an apiRequest whose catch block throws the error on instead of returning
\* handleError(error)
apiRequestRethrows(r) == ~ok(r) \/ ~r.json

\* The promise of apiRequest rejects: its catch block returns handleError(error),
\* so no outcome of the fetch makes it reject.
apiRequestRejects(r) == FALSE

\* apiRequest: the value its promise settles with (body is the record the
\* backend answers with when it accepts the request)
apiRequest(r, body) ==
  IF r.code # 0 /\ r.json /\ ok(r)
    THEN [status |-> "success", statusCode |-> r.code, client |-> body]
    ELSE handleError(r)

QueuedResult == [status |-> "queued", statusCode |-> -1, client |-> NoClient]

\* error.statusCode >= 500 || error.statusCode === 0
Transient(res) == res.statusCode >= 500 \/ res.statusCode = 0

\* ------------------------------------------------------------ persistence
\* a write that misses the newest entry of the queue
StringifyQueueStale(q) == [i \in 1..(Len(q) - 1) |-> [q[i] EXCEPT !.callback = FALSE]]

\* JSON.stringify(OfflineSync.queue) followed by JSON.parse: a function-valued
\* property is dropped, so a reloaded entry has no callback.
StringifyQueue(q) == [i \in 1..Len(q) |-> [q[i] EXCEPT !.callback = FALSE]]

\* JSON.stringify(ClientService.clients): records hold strings and booleans only
StringifyClients(cs) == cs

VARIABLES
  onLine,          \* navigator.onLine
  queue,           \* OfflineSync.queue
  offline_queue,   \* localStorage 'offline_queue'
  clients,         \* ClientService.clients
  cached_clients,  \* localStorage 'cached_clients'
  notified,        \* number of ClientService._notifyListeners() calls so far
  calls,           \* the ClientService mutations issued so far, in issue order
  drains,          \* the syncWithServer invocations that took a snapshot
  enqueued,        \* the operations pushed on OfflineSync.queue so far, in push order
  sent,            \* per operation: requests issued for it so far
  answered,        \* per operation: how each request issued for it so far ended
  called,          \* per operation: invocations of its completion callback so far
  now,             \* Date.now()
  nextSrv,         \* next identifier the backend assigns
  invoked,         \* what syncWithServer did, when the step just taken invoked it
  listeners,       \* per service: its listeners array, each listener by what it does
  received,        \* per service and listener: it was called in the latest notification
  escaped,         \* per service: the latest _notifyListeners() threw to its caller
  publishing,      \* the service whose _notifyListeners() the step just taken ran
  delivered,       \* per service: the latest notification, how many listeners were
                   \* registered when it started and which of them it called, in order
  request,         \* a DELETE /api/clients/:id request dispatched to clientRoutes
  stage,           \* the middleware of the route the request stands before
  reqUser,         \* req.user
  response,        \* status code of the response, 0 while none was sent
  stored,          \* identifiers of the Client documents of the database
  ran,             \* clientController.deleteClient was entered for the request
  jwt,             \* localStorage 'jwt'
  token,           \* AuthService.token
  currentUser,     \* AuthService.currentUser, "" for null
  announced,       \* what the latest AuthService._notifyListeners() passed on
  pending,         \* the requests of AuthService that have no response yet
  loads,           \* runs of ClientService.init so far
  loading          \* ClientService.init awaits ClientAPI.getAllClients(): "" when it
                   \* does not, else whether the browser was online at the request

\* the state of the offline queue and of the mirror
sync == <<onLine, queue, offline_queue, clients, cached_clients,
          notified, calls, drains, enqueued, sent, answered, called, now,
          nextSrv, invoked>>

\* the state of the listener registries
registry == <<listeners, received, escaped, publishing, delivered>>

\* the state of the backend handling one request
server == <<request, stage, reqUser, response, stored, ran>>

\* the state of AuthService
auth == <<jwt, token, currentUser, announced, pending>>

\* the progress of ClientService.init
boot == <<loads, loading>>

vars == <<sync, registry, server, auth, boot>>

Services == {"ClientService", "AuthService"}

NoUser == [exists |-> FALSE, changedPassword |-> FALSE, role |-> ""]
NoRequest ==
  [authorization |-> [scheme |-> "", token |-> ""], jwt |-> "", user |-> NoUser,
   id |-> NoId]

\* the Client documents the database holds before the request
Documents == {ServerId(1), ServerId(2)}

\* no request in the route
ServerIdle ==
  /\ request = NoRequest
  /\ stage = ""
  /\ reqUser = NoUser
  /\ response = 0
  /\ stored = Documents
  /\ ran = FALSE

\* AuthService as the module defines it, on a page whose localStorage holds no
\* 'jwt'
NoJwt == ""
AuthIdle ==
  /\ jwt = NoJwt
  /\ token = NoJwt
  /\ currentUser = ""
  /\ announced = "nothing"
  /\ pending = <<>>

\* ClientService.init has not been called
BootIdle == loads = 0 /\ loading = ""

\* listeners: [] in both services, nothing published yet
RegistryInit ==
  /\ listeners = [svc \in Services |-> <<>>]
  /\ received = [svc \in Services |-> <<>>]
  /\ escaped = [svc \in Services |-> FALSE]
  /\ publishing = ""
  /\ delivered = [svc \in Services |-> [start |-> 0, order |-> <<>>]]

\* the page as loaded: empty queue, empty mirror, nothing stored
SyncInit ==
  /\ onLine \in BOOLEAN
  /\ queue = <<>>
  /\ offline_queue = <<>>
  /\ clients = <<>>
  /\ cached_clients = <<>>
  /\ notified = 0
  /\ calls = <<>>
  /\ drains = <<>>
  /\ enqueued = <<>>
  /\ sent = <<>>
  /\ answered = <<>>
  /\ called = <<>>
  /\ now = 0
  /\ nextSrv = 1
  /\ invoked = ""

Init == SyncInit /\ RegistryInit /\ ServerIdle /\ AuthIdle /\ BootIdle

\* ------------------------------------------------------------ OfflineSync
\* The arguments ClientService hands to performOperation: endpoint, fetch
\* options and the completion callback (a closure of call c, named by op).
Operation(c, kind, id, data) ==
  [op |-> c,
   endpoint |-> [path |-> "/clients", id |-> IF kind = "create" THEN NoId ELSE id],
   method |-> CASE kind = "create" -> "POST"
                [] kind = "update" -> "PATCH"
                [] OTHER -> "DELETE",
   body |-> IF kind = "delete" THEN "" ELSE data,
   callback |-> TRUE]

\* addToQueue: OfflineSync.queue.push({endpoint, options, callback, timestamp});
\* no code reads the timestamp, the entry is modelled without it
addToQueue(q, o) == Append(q, o)

\* the record the backend answers with when it accepts the request of entry e
Accepted(e) ==
  IF e.method = "POST"
    THEN [_id |-> ServerId(nextSrv), name |-> e.body, _isTemp |-> FALSE]
    ELSE IF e.method = "PATCH"
      THEN [_id |-> e.endpoint.id, name |-> e.body, _isTemp |-> FALSE]
      ELSE NoClient

\* one more request or callback for operation o
Plus(count, o) == [count EXCEPT ![o] = @ + 1]

\* how a request ended, as the code tells the cases apart: result.status ===
\* 'success', else statusCode >= 500 || statusCode === 0, else a rejection
Class(res) ==
  IF res.status = "success" THEN "success"
  ELSE IF Transient(res) THEN "transient" ELSE "rejected"

\* one more response for operation o, apiRequest settling with res
Answer(log, o, res) == [log EXCEPT ![o] = Append(@, Class(res))]

\* the identifiers createClient made from Date.now() so far
Minted ==
  {calls[c].ret.client._id :
     c \in {k \in 1..Len(calls) : calls[k].ret.tag = "client" /\ calls[k].kind = "create"}}

\* The values Date.now() can return at the next reading.  The code uses a reading
\* only inside 'temp_' + Date.now(), so readings matter up to equality of the
\* identifiers made from them: a later value is a new one only once an
\* identifier has been made from the current one.
Clock == {now} \cup (IF now < MaxClock /\ TempId(now) \in Minted THEN {now + 1} ELSE {})

\* ---------------------------------------------------------- ClientService
Outcome(cs, notify, ret) == [clients |-> cs, notify |-> notify, ret |-> ret]

Null == [tag |-> "null"]
Bool(b) == [tag |-> "boolean", value |-> b]
Record(client) == [tag |-> "client", client |-> client]

\* a provisional record built without its _isTemp flag
tempClientUnflagged(data, t) == [_id |-> TempId(t), name |-> data, _isTemp |-> FALSE]

\* the provisional record createClient builds for a queued create
tempClient(data, t) == [_id |-> TempId(t), name |-> data, _isTemp |-> TRUE]

\* createClient without the test of 'queued': every result that is not a
\* success gets a provisional record
createClientThenAnyFailure(cs, res, data, t) ==
  IF res.status = "success"
    THEN Outcome(Append(cs, res.client), TRUE, Record(res.client))
    ELSE Outcome(Append(cs, tempClient(data, t)), TRUE, Record(tempClient(data, t)))

\* createClient after performOperation returned res
createClientThen(cs, res, data, t) ==
  IF res.status = "success"
    THEN Outcome(Append(cs, res.client), TRUE, Record(res.client))
    ELSE IF res.status = "queued"
      THEN Outcome(Append(cs, tempClient(data, t)), TRUE, Record(tempClient(data, t)))
      ELSE Outcome(cs, FALSE, Null)

\* updateClient after performOperation returned res
updateClientThen(cs, res, id, data) ==
  LET index == findIndex(cs, id)
      updatedClient == [cs[index] EXCEPT !.name = data, !._isTemp = TRUE]
  IN IF res.status = "success" /\ index # 0
       THEN Outcome([cs EXCEPT ![index] = res.client], TRUE, Record(res.client))
       ELSE IF res.status = "queued" /\ index # 0
         THEN Outcome([cs EXCEPT ![index] = updatedClient], TRUE, Record(updatedClient))
         ELSE Outcome(cs, FALSE, Null)

\* deleteClient after performOperation returned res
deleteClientThen(cs, res, id) ==
  IF res.status = "success" \/ res.status = "queued"
    THEN Outcome(filterOut(cs, id), TRUE, Bool(TRUE))
    ELSE Outcome(cs, FALSE, Bool(FALSE))

\* the completion callback createClient passes to performOperation
createCallback(cs, result) ==
  IF result.status = "success"
    THEN Outcome(Append(cs, result.client), TRUE, Null)
    ELSE Outcome(cs, FALSE, Null)

\* the completion callback updateClient passes to performOperation
updateCallback(cs, result, id) ==
  LET index == findIndex(cs, id)
  IN IF result.status = "success" /\ index # 0
       THEN Outcome([cs EXCEPT ![index] = result.client], TRUE, Null)
       ELSE Outcome(cs, FALSE, Null)

\* a callback of deleteClient that puts a record of the id back when the drain
\* did not succeed
deleteCallbackRestoring(cs, result, id) ==
  IF result.status = "success"
    THEN Outcome(filterOut(cs, id), TRUE, Null)
    ELSE Outcome(Append(cs, [_id |-> id, name |-> Names[1], _isTemp |-> FALSE]), TRUE, Null)

\* the completion callback deleteClient passes to performOperation
deleteCallback(cs, result, id) ==
  IF result.status = "success"
    THEN Outcome(filterOut(cs, id), TRUE, Null)
    ELSE Outcome(cs, FALSE, Null)

Then(call, cs, res, t) ==
  CASE call.kind = "create" -> createClientThen(cs, res, call.data, t)
    [] call.kind = "update" -> updateClientThen(cs, res, call.id, call.data)
    [] OTHER -> deleteClientThen(cs, res, call.id)

Callback(call, cs, result) ==
  CASE call.kind = "create" -> createCallback(cs, result)
    [] call.kind = "update" -> updateCallback(cs, result, call.id)
    [] OTHER -> deleteCallback(cs, result, call.id)

\* mirror update, localStorage.setItem('cached_clients', ...), _notifyListeners()
Apply(out) ==
  /\ clients' = out.clients
  /\ cached_clients' = IF out.notify THEN StringifyClients(out.clients)
                                     ELSE cached_clients
  /\ notified' = IF out.notify THEN notified + 1 ELSE notified

\* a call of a ClientService mutation: pc is where it stands, live how its live
\* attempt ended ("none": no live attempt, or no response yet), status the status
\* of the value performOperation returned, ret the value the mutation returned
Call(kind, id, data, pc, live, status, ret) ==
  [kind |-> kind, id |-> id, data |-> data, pc |-> pc, live |-> live,
   status |-> status, ret |-> ret]

\* A ClientService mutation called while navigator.onLine: performOperation
\* issues the request and suspends.
MutateOnline(kind, id, data) ==
  /\ invoked = ""
  /\ Len(calls) < MaxCalls
  /\ onLine
  /\ calls' = Append(calls, Call(kind, id, data, "await", "none", "", Null))
  /\ sent' = Append(sent, 1)
  /\ answered' = Append(answered, <<>>)
  /\ called' = Append(called, 0)
  /\ invoked' = ""
  /\ UNCHANGED <<onLine, queue, offline_queue, clients, cached_clients,
                 notified, drains, enqueued, now, nextSrv>>
  /\ UNCHANGED registry
  /\ UNCHANGED server
  /\ UNCHANGED auth
  /\ UNCHANGED boot

\* A ClientService mutation called while offline: performOperation queues the
\* operation and returns 'queued'; the mutation applies its optimistic effect.
MutateOffline(kind, id, data) ==
  /\ invoked = ""
  /\ Len(calls) < MaxCalls
  /\ ~onLine
  /\ \E t \in IF kind = "create" THEN Clock ELSE {now} :
       LET c == Len(calls) + 1
           out == Then(Call(kind, id, data, "", "none", "", Null), clients, QueuedResult, t)
       IN /\ now' = t
          /\ queue' = addToQueue(queue, Operation(c, kind, id, data))
          /\ offline_queue' = StringifyQueue(queue')
          /\ enqueued' = Append(enqueued, c)
          /\ Apply(out)
          /\ calls' = Append(calls, Call(kind, id, data, "done", "none", "queued", out.ret))
  /\ sent' = Append(sent, 0)
  /\ answered' = Append(answered, <<>>)
  /\ called' = Append(called, 0)
  /\ invoked' = ""
  /\ UNCHANGED <<onLine, drains, nextSrv>>
  /\ UNCHANGED registry
  /\ UNCHANGED server
  /\ UNCHANGED auth
  /\ UNCHANGED boot

createClient(data) == MutateOnline("create", NoId, data) \/ MutateOffline("create", NoId, data)
updateClient(id, data) == MutateOnline("update", id, data) \/ MutateOffline("update", id, data)
deleteClient(id) == MutateOnline("delete", id, "") \/ MutateOffline("delete", id, "")

\* The response of a live attempt: performOperation returns what apiRequest
\* settled with (its catch block runs only when apiRequest rejected), and the
\* mutation goes on with that value.
LiveResponse(c, r) ==
  /\ invoked = ""
  /\ calls[c].pc = "await"
  /\ \E t \in IF calls[c].kind = "create" /\ apiRequestRejects(r) /\ Transient(handleError(r))
               THEN Clock ELSE {now} :
       LET o == Operation(c, calls[c].kind, calls[c].id, calls[c].data)
           rejected == apiRequestRejects(r)
           error == handleError(r)
           requeue == rejected /\ Transient(error)
           res == IF rejected
                    THEN IF Transient(error) THEN QueuedResult ELSE error
                    ELSE apiRequest(r, Accepted(o))
           out == Then(calls[c], clients, res, t)
       IN /\ now' = t
          /\ queue' = IF requeue THEN addToQueue(queue, o) ELSE queue
          /\ offline_queue' = IF requeue THEN StringifyQueue(queue') ELSE offline_queue
          /\ enqueued' = IF requeue THEN Append(enqueued, c) ELSE enqueued
          /\ Apply(out)
          /\ calls' = [calls EXCEPT ![c] =
                         Call(@.kind, @.id, @.data, "done",
                              Class(apiRequest(r, NoClient)), res.status, out.ret)]
          /\ nextSrv' = IF o.method = "POST" /\ ok(r) THEN nextSrv + 1 ELSE nextSrv
  /\ answered' = Answer(answered, c, apiRequest(r, NoClient))
  /\ invoked' = ""
  /\ UNCHANGED <<onLine, drains, sent, called>>
  /\ UNCHANGED registry
  /\ UNCHANGED server
  /\ UNCHANGED auth
  /\ UNCHANGED boot

\* ------------------------------------------------------------------ drain
RECURSIVE Reverse(_)
Reverse(q) == IF Len(q) = 0 THEN <<>> ELSE Append(Reverse(Tail(q)), Head(q))

\* a snapshot iterated from the newest operation to the oldest
SnapshotReversed(q) == [operations |-> Reverse(q), i |-> 1, pc |-> "await", thrown |-> FALSE]

\* a snapshot that copies the head of the queue only
SnapshotHeadOnly(q) == [operations |-> <<Head(q)>>, i |-> 1, pc |-> "await", thrown |-> FALSE]

\* operations = [...OfflineSync.queue], and the loop at its first operation
Snapshot(q) == [operations |-> q, i |-> 1, pc |-> "await", thrown |-> FALSE]

\* a snapshot that takes only the oldest operation out of the live queue
EmptiedOfHead(q) == Tail(q)

\* a snapshot that leaves the live queue as it was
NotEmptied(q) == q

\* what syncWithServer leaves in OfflineSync.queue when it takes its snapshot
Emptied(q) == <<>>

\* syncWithServer without the test of queue.length: an empty queue gets a
\* snapshot and a drain of its own
syncWithServerUnguarded(online, q, ds) ==
  IF ~online
    THEN /\ invoked' = "offline"
         /\ queue' = q
         /\ drains' = ds
         /\ UNCHANGED <<offline_queue, sent>>
    ELSE /\ invoked' = IF Len(q) = 0 THEN "empty" ELSE "snapshot"
         /\ drains' = Append(ds, [Snapshot(q) EXCEPT !.pc = IF Len(q) = 0 THEN "done" ELSE "await"])
         /\ queue' = Emptied(q)
         /\ offline_queue' = StringifyQueue(queue')
         /\ sent' = IF Len(q) = 0 THEN sent
                                  ELSE Plus(sent, Snapshot(q).operations[Snapshot(q).i].op)

\* syncWithServer without the test of navigator.onLine: it takes its snapshot
\* whenever the queue holds an operation
syncWithServerOffline(online, q, ds) ==
  IF Len(q) = 0
    THEN /\ invoked' = IF ~online THEN "offline" ELSE "empty"
         /\ queue' = q
         /\ drains' = ds
         /\ UNCHANGED <<offline_queue, sent>>
    ELSE /\ invoked' = IF ~online THEN "offline" ELSE "snapshot"
         /\ drains' = Append(ds, Snapshot(q))
         /\ queue' = Emptied(q)
         /\ offline_queue' = StringifyQueue(queue')
         /\ sent' = Plus(sent, Snapshot(q).operations[Snapshot(q).i].op)

\* syncWithServer up to its first suspension: online is navigator.onLine, q is
\* OfflineSync.queue and ds the drains in progress or over when it is invoked
syncWithServer(online, q, ds) ==
  IF ~online \/ Len(q) = 0
    THEN /\ invoked' = IF ~online THEN "offline" ELSE "empty"
         /\ queue' = q
         /\ drains' = ds
         /\ UNCHANGED <<offline_queue, sent>>
    ELSE /\ invoked' = "snapshot"
         /\ drains' = Append(ds, Snapshot(q))
         /\ queue' = Emptied(q)
         /\ offline_queue' = StringifyQueue(queue')
         /\ sent' = Plus(sent, Snapshot(q).operations[Snapshot(q).i].op)

\* An invocation of syncWithServer by code outside api.js and clientService.js
\* (OfflineSync is exported); the two modules invoke it from init and from the
\* 'online' listener only.
SyncWithServer ==
  /\ invoked = ""
  /\ syncWithServer(onLine, queue, drains)
  /\ UNCHANGED <<onLine, clients, cached_clients, notified, calls, enqueued,
                 answered, called, now, nextSrv>>
  /\ UNCHANGED registry
  /\ UNCHANGED server
  /\ UNCHANGED auth
  /\ UNCHANGED boot

\* a loop that skips every other operation
NextOpSkips(i) == i + 2

\* a loop that does not advance
NextOpStuck(i) == i

\* index of the operation the loop of a drain turns to after position i
NextOp(i) == i + 1

\* what the catch block of the loop sees when the completion callback threw:
\* an exception without statusCode (undefined >= 500 and undefined === 0 are false)
CallbackError == [status |-> "", statusCode |-> -1, client |-> NoClient]

\* a loop that gives up at the first operation that did not succeed
loopGoesOnAfterSuccess(result, thrown) == result.status = "success" /\ ~thrown

\* the for loop after the try/catch of an iteration: it turns to the next
\* operation whatever the result was and whether or not the callback threw
loopGoesOn(result, thrown) == TRUE

\* One iteration of the loop of syncWithServer after its await: callback in the
\* try block, re-queue in the catch block, then the next request or the end.
\* A callback that changes the mirror can throw at its localStorage.setItem
\* (thrown): the mirror is changed, the cache is not, no listener is notified.
DrainResponse(d, r) ==
  /\ invoked = ""
  /\ drains[d].pc = "await"
  /\ LET operations == drains[d].operations
         op == operations[drains[d].i]
         rejected == apiRequestRejects(r)
         result == apiRequest(r, Accepted(op))
         invoke == ~rejected /\ op.callback
         out == IF invoke THEN Callback(calls[op.op], clients, result)
                          ELSE Outcome(clients, FALSE, Null)
     IN \E thrown \in IF out.notify THEN BOOLEAN ELSE {FALSE} :
          LET requeue == \/ rejected /\ Transient(handleError(r))
                         \/ thrown /\ Transient(CallbackError)
              more == /\ loopGoesOn(result, thrown)
                      /\ NextOp(drains[d].i) <= Len(operations)
          IN /\ Apply(IF thrown THEN Outcome(out.clients, FALSE, Null) ELSE out)
             /\ queue' = IF requeue THEN Append(queue, op) ELSE queue
             /\ offline_queue' = IF requeue THEN StringifyQueue(queue') ELSE offline_queue
             /\ drains' = IF more
                            THEN [drains EXCEPT ![d].i = NextOp(drains[d].i),
                                                ![d].thrown = @ \/ thrown]
                            ELSE [drains EXCEPT ![d].pc = "done",
                                                ![d].thrown = @ \/ thrown]
             /\ answered' = Answer(answered, op.op, result)
             /\ called' = IF invoke THEN Plus(called, op.op) ELSE called
             /\ enqueued' = IF requeue THEN Append(enqueued, op.op) ELSE enqueued
             /\ sent' = IF more THEN Plus(sent, operations[NextOp(drains[d].i)].op) ELSE sent
             /\ nextSrv' = IF op.method = "POST" /\ ok(r) THEN nextSrv + 1 ELSE nextSrv
  /\ invoked' = ""
  /\ UNCHANGED <<onLine, calls, now>>
  /\ UNCHANGED registry
  /\ UNCHANGED server
  /\ UNCHANGED auth
  /\ UNCHANGED boot

\* ----------------------------------------------------------- environment
\* the browser goes online: navigator.onLine is true and the 'online' event
\* runs the listener init registered, OfflineSync.syncWithServer
GoOnline ==
  /\ invoked = ""
  /\ ~onLine
  /\ onLine' = TRUE
  /\ syncWithServer(TRUE, queue, drains)
  /\ UNCHANGED <<clients, cached_clients, notified, calls, enqueued, answered,
                 called, now, nextSrv>>
  /\ UNCHANGED registry
  /\ UNCHANGED server
  /\ UNCHANGED auth
  /\ UNCHANGED boot

\* the browser goes offline: the 'offline' listener only logs
GoOffline ==
  /\ invoked = ""
  /\ onLine
  /\ onLine' = FALSE
  /\ invoked' = ""
  /\ UNCHANGED <<queue, offline_queue, clients, cached_clients, notified, calls,
                 drains, enqueued, sent, answered, called, now, nextSrv>>
  /\ UNCHANGED registry
  /\ UNCHANGED server
  /\ UNCHANGED auth
  /\ UNCHANGED boot

\* OfflineSync.init on a freshly loaded page (the module starts with queue = []):
\* the queue is what localStorage holds, the 'online' listener is registered,
\* and a drain starts when online with a non-empty queue
init(savedQueue, ds) ==
  LET loaded == IF Len(savedQueue) > 0 THEN savedQueue ELSE <<>>
  IN IF onLine /\ Len(loaded) > 0
       THEN syncWithServer(TRUE, loaded, ds)
       ELSE /\ invoked' = ""
            /\ queue' = loaded
            /\ drains' = ds
            /\ UNCHANGED <<offline_queue, sent>>

Lost(pc) == IF pc = "done" THEN "done" ELSE "lost"

\* The page is reloaded, any number of times in a run: the module state is
\* rebuilt and the page runs init again; localStorage stays, the continuations
\* of the requests in flight are gone.
Reload ==
  /\ invoked = ""
  /\ clients' = <<>>
  /\ calls' = [c \in 1..Len(calls) |-> [calls[c] EXCEPT !.pc = Lost(calls[c].pc)]]
  /\ init(offline_queue,
          [d \in 1..Len(drains) |-> [drains[d] EXCEPT !.pc = Lost(drains[d].pc)]])
  /\ UNCHANGED <<onLine, cached_clients, notified, enqueued, answered, called, now,
                 nextSrv>>
  /\ UNCHANGED registry
  /\ UNCHANGED server
  /\ UNCHANGED auth
  /\ UNCHANGED boot

\* The task that invoked syncWithServer ends (syncWithServer returned, or
\* suspended at its first await): no other task starts before.
EndOfTask ==
  /\ invoked # ""
  /\ invoked' = ""
  /\ UNCHANGED <<onLine, queue, offline_queue, clients, cached_clients, notified,
                 calls, drains, enqueued, sent, answered, called, now, nextSrv>>
  /\ UNCHANGED registry
  /\ UNCHANGED server
  /\ UNCHANGED auth
  /\ UNCHANGED boot

\* identifiers a caller can name: those of the records the mirror shows and
\* those of the records earlier calls returned to it
KnownIds ==
  {clients[i]._id : i \in 1..Len(clients)}
  \cup {calls[c].ret.client._id : c \in {k \in 1..Len(calls) : calls[k].ret.tag = "client"}}

\* payloads a caller can pass: clientData is opaque to the client code, so a
\* call passes a name used by an earlier call or the first unused one
Payloads ==
  LET used == {calls[c].data : c \in 1..Len(calls)} \ {""}
  IN {Names[i] : i \in 1..Len(Names)} \cap
     (used \cup {Names[i] : i \in {j \in 1..Len(Names) : j <= Cardinality(used) + 1}})

Next ==
  \/ \E data \in Payloads : createClient(data)
  \/ \E id \in KnownIds, data \in Payloads : updateClient(id, data)
  \/ \E id \in KnownIds : deleteClient(id)
  \/ \E c \in 1..Len(calls) :
       \E r \in Responses(Operation(c, calls[c].kind, calls[c].id, calls[c].data)) :
         LiveResponse(c, r)
  \/ \E d \in 1..Len(drains) :
       \E r \in Responses(drains[d].operations[drains[d].i]) : DrainResponse(d, r)
  \/ GoOnline
  \/ GoOffline
  \/ Reload
  \/ EndOfTask

Spec == Init /\ [][Next]_vars

\* the program with callers of the exported syncWithServer
CallerNext == Next \/ SyncWithServer

CallerSpec == Init /\ [][CallerNext]_vars

\* Every request gets its response: the await of a live attempt and the await
\* in the loop of a drain resume while the page that issued them is loaded.  A
\* response waits for the running task to end, however often tasks that
\* invoke syncWithServer run in between, so the fairness of the responses is
\* strong; a running task always ends.
AnyLiveResponse ==
  \E c \in 1..Len(calls) :
    \E r \in Responses(Operation(c, calls[c].kind, calls[c].id, calls[c].data)) :
      LiveResponse(c, r)

AnyDrainResponse ==
  \E d \in 1..Len(drains) :
    \E r \in Responses(drains[d].operations[drains[d].i]) : DrainResponse(d, r)

FairSpec ==
  Spec /\ SF_vars(AnyLiveResponse) /\ SF_vars(AnyDrainResponse) /\ WF_vars(EndOfTask)

\* ------------------------------------------------- reads of ClientService
\* a record as GET /api/clients returns it
Stored(n, name) == [_id |-> ServerId(n), name |-> name, _isTemp |-> FALSE]

\* the lists GET /api/clients can answer with
Listings ==
  {<<>>}
  \cup {<<Stored(1, Names[a])>> : a \in 1..Len(Names)}
  \cup {<<Stored(1, Names[a]), Stored(2, Names[b])>> : a, b \in 1..Len(Names)}

\* what an earlier page can have left in localStorage 'cached_clients'
Caches == Listings \cup {<<tempClient(Names[a], 0)>> : a \in 1..Len(Names)}

\* the answers to a GET request
Answers == {[code |-> c, json |-> TRUE] : c \in {200, 500}} \cup {[code |-> 0, json |-> FALSE]}

\* ClientService.init that keeps only the confirmed records of the cache
ClientServiceInitThenConfirmedOnly(cs, cache, res, list) ==
  IF res.status = "success"
    THEN [clients |-> list, cached |-> cache, notify |-> TRUE]
    ELSE IF cache # <<>>
      THEN [clients |-> SelectSeq(cache, LAMBDA c : ~c._isTemp), cached |-> cache,
            notify |-> TRUE]
      ELSE [clients |-> cs, cached |-> cache, notify |-> FALSE]

\* ClientService.init after OfflineSync.init() and the await of
\* ClientAPI.getAllClients(): what it leaves in the mirror and the cache and
\* whether it notifies; list is response.data.clients.  An absent cache item and
\* a cached [] leave the same mirror.
ClientServiceInitThen(cs, cache, res, list) ==
  IF res.status = "success"
    THEN [clients |-> list, cached |-> cache, notify |-> TRUE]
    ELSE IF cache # <<>>
      THEN [clients |-> cache, cached |-> cache, notify |-> TRUE]
      ELSE [clients |-> cs, cached |-> cache, notify |-> FALSE]

\* ClientService.getAllClients after its await
getAllClientsThen(cs, cache, res, list) ==
  IF res.status = "success"
    THEN [clients |-> list, cached |-> StringifyClients(list), notify |-> TRUE]
    ELSE [clients |-> cs, cached |-> cache, notify |-> FALSE]

\* ClientService.getClient(id): a hit in the mirror returns at once; otherwise,
\* after the await, the record replaces the one with its id or is pushed
getClientThen(cs, cache, res, id, record) ==
  IF findIndex(cs, id) # 0 \/ res.status # "success"
    THEN [clients |-> cs, cached |-> cache, notify |-> FALSE]
    ELSE [clients |-> Append(cs, record),
          cached |-> StringifyClients(Append(cs, record)), notify |-> TRUE]

\* the mirror, the cache and the notification count after a read
Loaded(out) ==
  /\ notified < MaxLoads
  /\ clients' = out.clients
  /\ cached_clients' = out.cached
  /\ notified' = IF out.notify THEN notified + 1 ELSE notified
  /\ UNCHANGED <<onLine, queue, offline_queue, calls, drains, enqueued, sent,
                 answered, called, now, nextSrv, invoked>>
  /\ UNCHANGED registry
  /\ UNCHANGED server
  /\ UNCHANGED auth
  /\ UNCHANGED boot

ClientServiceInit(r, list) ==
  Loaded(ClientServiceInitThen(clients, cached_clients, apiRequest(r, NoClient), list))

GetAllClients(r, list) ==
  Loaded(getAllClientsThen(clients, cached_clients, apiRequest(r, NoClient), list))

GetClient(r, id, name) ==
  Loaded(getClientThen(clients, cached_clients, apiRequest(r, NoClient),
                       ServerId(id), Stored(id, name)))

\* reads in sequence, each from its call to its return
LoadNext ==
  \/ \E r \in Answers, list \in Listings : ClientServiceInit(r, list)
  \/ \E r \in Answers, list \in Listings : GetAllClients(r, list)
  \/ \E r \in Answers, id \in 1..2, a \in 1..Len(Names) : GetClient(r, id, Names[a])

\* a freshly loaded page with the cache an earlier page left
LoadInit ==
  /\ onLine \in BOOLEAN
  /\ queue = <<>>
  /\ offline_queue = <<>>
  /\ clients = <<>>
  /\ cached_clients \in Caches
  /\ notified = 0
  /\ calls = <<>>
  /\ drains = <<>>
  /\ enqueued = <<>>
  /\ sent = <<>>
  /\ answered = <<>>
  /\ called = <<>>
  /\ now = 0
  /\ nextSrv = 1
  /\ invoked = ""
  /\ RegistryInit
  /\ ServerIdle
  /\ AuthIdle
  /\ BootIdle

LoadSpec == LoadInit /\ [][LoadNext]_vars

\* The page is reloaded and runs ClientService.init up to its await: the module
\* state is rebuilt, OfflineSync.init loads the queue and starts a drain when
\* online with a non-empty queue, and the request of getAllClients is sent.
Restart ==
  /\ invoked = ""
  /\ loads < MaxLoads
  /\ loads' = loads + 1
  /\ loading' = IF onLine THEN "online" ELSE "offline"
  /\ clients' = <<>>
  /\ calls' = [c \in 1..Len(calls) |-> [calls[c] EXCEPT !.pc = Lost(calls[c].pc)]]
  /\ init(offline_queue,
          [d \in 1..Len(drains) |-> [drains[d] EXCEPT !.pc = Lost(drains[d].pc)]])
  /\ UNCHANGED <<onLine, cached_clients, notified, enqueued, answered, called, now,
                 nextSrv>>
  /\ UNCHANGED registry
  /\ UNCHANGED server
  /\ UNCHANGED auth

\* the lists GET /api/clients can answer with when the backend has assigned
\* the identifiers below nextSrv
Held == {l \in Listings : \A i \in 1..Len(l) : \E n \in 1..(nextSrv - 1) : l[i]._id = ServerId(n)}

\* the answers the getAllClients request of init can get: none when the
\* browser was offline at the request
InitAnswers == IF loading = "offline" THEN {[code |-> 0, json |-> FALSE]} ELSE Answers

\* ClientService.init after its await: r is what fetch saw, list the clients of
\* a success
InitResponse(r, list) ==
  /\ invoked = ""
  /\ loading # ""
  /\ loading' = ""
  /\ LET out == ClientServiceInitThen(clients, cached_clients, apiRequest(r, NoClient), list)
     IN /\ clients' = out.clients
        /\ cached_clients' = out.cached
        /\ notified' = IF out.notify THEN notified + 1 ELSE notified
  /\ invoked' = ""
  /\ UNCHANGED <<onLine, queue, offline_queue, calls, drains, enqueued, sent,
                 answered, called, now, nextSrv>>
  /\ UNCHANGED loads
  /\ UNCHANGED registry
  /\ UNCHANGED server
  /\ UNCHANGED auth

\* the mutations, drains and connectivity changes of the program on pages that
\* run ClientService.init when they load
BootNext ==
  \/ \E data \in Payloads : createClient(data)
  \/ \E id \in KnownIds, data \in Payloads : updateClient(id, data)
  \/ \E id \in KnownIds : deleteClient(id)
  \/ AnyLiveResponse
  \/ AnyDrainResponse
  \/ GoOnline
  \/ GoOffline
  \/ Restart
  \/ \E r \in InitAnswers, list \in Held : InitResponse(r, list)
  \/ EndOfTask

BootSpec == Init /\ [][BootNext]_vars

\* a page on which ClientService.init has loaded the list of the backend, one
\* stored client: the mirror holds it, the listeners were notified once, and
\* the success path of init wrote no cache
LoadedInit ==
  /\ onLine = TRUE
  /\ queue = <<>>
  /\ offline_queue = <<>>
  /\ clients = <<Stored(1, Names[1])>>
  /\ cached_clients = <<>>
  /\ notified = 1
  /\ calls = <<>>
  /\ drains = <<>>
  /\ enqueued = <<>>
  /\ sent = <<>>
  /\ answered = <<>>
  /\ called = <<>>
  /\ now = 0
  /\ nextSrv = 2
  /\ invoked = ""
  /\ RegistryInit
  /\ ServerIdle
  /\ AuthIdle
  /\ BootIdle

\* the mutations, drains and connectivity changes of Next on the loaded page
LoadedSpec == LoadedInit /\ [][Next]_vars

\* ------------------------------------------------------ listener registries
\* what a listener does when it is called
Behaviours == {"returns", "throws"}

\* a listener called without try/catch: its exception leaves the loop
callListenerUncaught(l) == IF l = "throws" THEN "thrown" ELSE "returned"

\* try { listener(...) } catch (error) { console.error(...) }
callListener(l) == IF l = "throws" THEN "caught" ELSE "returned"

RECURSIVE forEach(_, _, _)
\* listeners.forEach(listener => ...) from index i on; rc marks the listeners
\* called so far
forEach(ls, i, rc) ==
  IF i > Len(ls)
    THEN [received |-> rc, escaped |-> FALSE]
    ELSE IF callListener(ls[i]) = "thrown"
      THEN [received |-> [rc EXCEPT ![i] = TRUE], escaped |-> TRUE]
      ELSE forEach(ls, i + 1, [rc EXCEPT ![i] = TRUE])

\* ClientService._notifyListeners / AuthService._notifyListeners
notifyListeners(ls) == forEach(ls, 1, [i \in 1..Len(ls) |-> FALSE])

\* addListener(listener): listeners.push(listener)
addListener(svc, l) ==
  /\ Len(listeners[svc]) < MaxListeners
  /\ listeners' = [listeners EXCEPT ![svc] = Append(@, l)]
  /\ received' = [received EXCEPT ![svc] = Append(@, FALSE)]
  /\ publishing' = ""
  /\ UNCHANGED <<escaped, delivered>>
  /\ UNCHANGED sync
  /\ UNCHANGED server
  /\ UNCHANGED auth
  /\ UNCHANGED boot

\* the sequence without its k-th element
splice(q, k) == [i \in 1..(Len(q) - 1) |-> IF i < k THEN q[i] ELSE q[i + 1]]

\* removeListener(listener): indexOf, then splice(index, 1)
removeListener(svc, k) ==
  /\ listeners' = [listeners EXCEPT ![svc] = splice(@, k)]
  /\ received' = [received EXCEPT ![svc] = splice(@, k)]
  /\ publishing' = ""
  /\ UNCHANGED <<escaped, delivered>>
  /\ UNCHANGED sync
  /\ UNCHANGED server
  /\ UNCHANGED auth
  /\ UNCHANGED boot

\* a change of the service's data publishes it: _notifyListeners()
Publish(svc) ==
  /\ received' = [received EXCEPT ![svc] = notifyListeners(listeners[svc]).received]
  /\ escaped' = [escaped EXCEPT ![svc] = notifyListeners(listeners[svc]).escaped]
  /\ publishing' = svc
  /\ delivered' = [delivered EXCEPT ![svc] =
                     [start |-> Len(listeners[svc]),
                      order |-> [i \in 1..Cardinality({k \in 1..Len(listeners[svc]) :
                                                         received'[svc][k]}) |-> i]]]
  /\ UNCHANGED listeners
  /\ UNCHANGED sync
  /\ UNCHANGED server
  /\ UNCHANGED auth
  /\ UNCHANGED boot

\* what a listener can do to the registry it is registered with while it is
\* being called
Reentrant == {"removeListener", "addListener"}

\* the array of one service at the start of a notification: each listener with
\* the index it has then
Indexed(ls) == [i \in 1..Len(ls) |-> [at |-> i, does |-> ls[i]]]

\* the listeners array after the listener at index k was called: a listener that
\* calls removeListener(itself) splices itself out, one that calls addListener
\* pushes a listener not registered before
afterCall(arr, k) ==
  IF arr[k].does = "removeListener" THEN splice(arr, k)
  ELSE IF arr[k].does = "addListener" THEN Append(arr, [at |-> 0, does |-> "returns"])
  ELSE arr

RECURSIVE forEachLive(_, _, _, _)
\* Array.prototype.forEach over an array its callback changes: the indices
\* visited are 1..n, n the length when forEach was called; an index the array
\* has no element at any more is skipped, and each visit reads the element that
\* is at the index then
forEachLive(arr, k, n, order) ==
  IF k > n THEN [listeners |-> arr, order |-> order]
  ELSE IF k > Len(arr) THEN forEachLive(arr, k + 1, n, order)
  ELSE forEachLive(afterCall(arr, k), k + 1, n, Append(order, arr[k].at))

\* _notifyListeners() with listeners that may call addListener or
\* removeListener of the same service
PublishLive(svc) ==
  LET out == forEachLive(Indexed(listeners[svc]), 1, Len(listeners[svc]), <<>>)
  IN /\ Len(out.listeners) <= MaxListeners
     /\ listeners' = [listeners EXCEPT ![svc] =
                        [i \in 1..Len(out.listeners) |-> out.listeners[i].does]]
     /\ received' = [received EXCEPT ![svc] =
                       [i \in 1..Len(out.listeners) |->
                          \E j \in 1..Len(out.order) :
                            out.order[j] # 0 /\ out.order[j] = out.listeners[i].at]]
     /\ delivered' = [delivered EXCEPT ![svc] =
                        [start |-> Len(listeners[svc]), order |-> out.order]]
     /\ publishing' = svc
     /\ UNCHANGED escaped
     /\ UNCHANGED sync
     /\ UNCHANGED server
     /\ UNCHANGED auth
     /\ UNCHANGED boot

LiveNext ==
  \/ \E svc \in Services, l \in Behaviours \cup Reentrant : addListener(svc, l)
  \/ \E svc \in Services : \E k \in 1..Len(listeners[svc]) : removeListener(svc, k)
  \/ \E svc \in Services : PublishLive(svc)

LiveSpec == Init /\ [][LiveNext]_vars

RegistryNext ==
  \/ \E svc \in Services, l \in Behaviours : addListener(svc, l)
  \/ \E svc \in Services : \E k \in 1..Len(listeners[svc]) : removeListener(svc, k)
  \/ \E svc \in Services : Publish(svc)

RegistrySpec == Init /\ [][RegistryNext]_vars

\* ------------------------------------------------------------ AuthService
Users == {"ann", "bob"}

\* the token createSendToken signs for a user
signToken(u) == IF u = "ann" THEN "jwt_ann" ELSE "jwt_bob"

\* the tokens an earlier page can have left in localStorage 'jwt'
Jwts == {signToken(u) : u \in Users}

\* the user protect finds for a token
Owner(t) == CHOOSE u \in Users : signToken(u) = t

\* a request of AuthService: the method that issued it and the Authorization
\* header apiRequest gave it (the 'jwt' of localStorage when it was called)
AuthRequest(op, bearer) == [op |-> op, bearer |-> bearer]

\* What fetch can see for a request of AuthService.  signup and login answer
\* with a token for some user or reject; getMe and updateMyPassword stand
\* behind protect and succeed for the owner of the bearer token only; logout
\* always succeeds when the backend is reached.
AuthAnswers(q) ==
  {[code |-> 0, user |-> ""], [code |-> 500, user |-> ""]}
  \cup (IF q.op \in {"login", "register"}
         THEN {[code |-> 200, user |-> u] : u \in Users} \cup {[code |-> 401, user |-> ""]}
         ELSE IF q.op = "logout"
           THEN {[code |-> 200, user |-> ""]}
           ELSE {[code |-> 401, user |-> ""]}
                \cup (IF q.bearer # NoJwt THEN {[code |-> 200, user |-> Owner(q.bearer)]}
                                          ELSE {}))

\* apiRequest for a request of AuthService: the parsed body of a 2xx, else
\* handleError's object (statusCode 0 without a response)
authRequest(a) ==
  IF a.code >= 200 /\ a.code <= 299
    THEN [status |-> "success", statusCode |-> a.code, user |-> a.user,
          token |-> IF a.user = "" THEN NoJwt ELSE signToken(a.user)]
    ELSE [status |-> "error", statusCode |-> a.code, user |-> "", token |-> NoJwt]

\* the sequence without the request at k, plus the requests in more
Settle(k, more) == splice(pending, k) \o more

\* logout() up to its await: the token and the user are cleared, the listeners
\* notified, and AuthAPI.logout() is called
logoutUntilAwait(k) ==
  /\ jwt' = NoJwt
  /\ token' = NoJwt
  /\ currentUser' = ""
  /\ announced' = "null"
  /\ pending' = IF k = 0 THEN Append(pending, AuthRequest("logout", NoJwt))
                         ELSE Settle(k, <<AuthRequest("logout", NoJwt)>>)

\* AuthService.init(): without a stored token it returns null; with one it sets
\* AuthService.token and awaits UserAPI.getMe()
AuthServiceInit ==
  /\ Len(pending) < MaxPending
  /\ IF jwt = NoJwt
       THEN UNCHANGED auth
       ELSE /\ token' = jwt
            /\ pending' = Append(pending, AuthRequest("init", jwt))
            /\ UNCHANGED <<jwt, currentUser, announced>>
  /\ UNCHANGED sync
  /\ UNCHANGED registry
  /\ UNCHANGED server
  /\ UNCHANGED boot

\* register, login and updatePassword up to their await
AuthCall(op) ==
  /\ Len(pending) < MaxPending
  /\ pending' = Append(pending, AuthRequest(op, jwt))
  /\ UNCHANGED <<jwt, token, currentUser, announced>>
  /\ UNCHANGED sync
  /\ UNCHANGED registry
  /\ UNCHANGED server
  /\ UNCHANGED boot

\* AuthService.logout() called by the application
Logout ==
  /\ Len(pending) < MaxPending
  /\ logoutUntilAwait(0)
  /\ UNCHANGED sync
  /\ UNCHANGED registry
  /\ UNCHANGED server
  /\ UNCHANGED boot

\* The request at k gets its response a and the method that awaits it goes on:
\* init keeps the user of a success and calls logout() on anything else;
\* register, login and updatePassword store the token and the user of a
\* success and leave everything as it is otherwise; logout only returns.
AuthResponse(k, a) ==
  LET q == pending[k]
      res == authRequest(a)
  IN /\ IF q.op = "init"
          THEN IF res.status = "success"
                 THEN /\ currentUser' = res.user
                      /\ announced' = res.user
                      /\ pending' = Settle(k, <<>>)
                      /\ UNCHANGED <<jwt, token>>
                 ELSE logoutUntilAwait(k)
          ELSE IF q.op \in {"register", "login", "updatePassword"} /\ res.status = "success"
            THEN /\ jwt' = res.token
                 /\ token' = res.token
                 /\ currentUser' = res.user
                 /\ announced' = res.user
                 /\ pending' = Settle(k, <<>>)
            ELSE /\ pending' = Settle(k, <<>>)
                 /\ UNCHANGED <<jwt, token, currentUser, announced>>
     /\ UNCHANGED sync
     /\ UNCHANGED registry
     /\ UNCHANGED server
     /\ UNCHANGED boot

\* the page is reloaded: AuthService is as the module defines it, localStorage
\* stays, the continuations of the requests in flight are gone
AuthReload ==
  /\ token' = NoJwt
  /\ currentUser' = ""
  /\ announced' = "nothing"
  /\ pending' = <<>>
  /\ UNCHANGED jwt
  /\ UNCHANGED sync
  /\ UNCHANGED registry
  /\ UNCHANGED server
  /\ UNCHANGED boot

AuthNext ==
  \/ AuthServiceInit
  \/ \E op \in {"register", "login", "updatePassword"} : AuthCall(op)
  \/ Logout
  \/ \E k \in 1..Len(pending) : \E a \in AuthAnswers(pending[k]) : AuthResponse(k, a)
  \/ AuthReload

\* a freshly loaded page with the 'jwt' an earlier page left
AuthInit ==
  /\ SyncInit
  /\ RegistryInit
  /\ ServerIdle
  /\ jwt \in {NoJwt} \cup Jwts
  /\ token = NoJwt
  /\ currentUser = ""
  /\ announced = "nothing"
  /\ pending = <<>>
  /\ BootIdle

AuthSpec == AuthInit /\ [][AuthNext]_vars

\* ------------------------------------------- backend: DELETE /api/clients/:id
Roles == {"admin", "manager", "technician"}

\* what jwt.verify makes of a token: "valid" verifies, anything else throws
Tokens == {"valid", "forged"}

\* The requests the router receives: an Authorization header (absent, another
\* scheme, 'Bearer' alone or 'Bearer <token>'), a jwt cookie (absent or a
\* token), the user the token names, and the :id of the path (a stored
\* document, an unknown id, or a string that is no ObjectId).
Requests ==
  [authorization : {[scheme |-> "", token |-> ""], [scheme |-> "Basic", token |-> "valid"],
                    [scheme |-> "Bearer", token |-> ""]}
                   \cup {[scheme |-> "Bearer", token |-> t] : t \in Tokens},
   jwt : {""} \cup Tokens,
   user : [exists : BOOLEAN, changedPassword : BOOLEAN, role : Roles],
   id : Documents \cup {ServerId(3), TempId(0)}]

\* protect: the token it reads, "" when it finds none
Token(req) ==
  IF req.authorization.scheme = "Bearer"
    THEN req.authorization.token
    ELSE IF req.jwt # "" THEN req.jwt ELSE ""

\* protect: 401 without a token, with a token jwt.verify rejects, for a user
\* that no longer exists or changed the password; otherwise req.user and next()
protect ==
  /\ stage = "protect"
  /\ IF \/ Token(request) = ""
        \/ Token(request) # "valid"
        \/ ~request.user.exists
        \/ request.user.changedPassword
       THEN /\ response' = 401
            /\ stage' = "responded"
            /\ UNCHANGED reqUser
       ELSE /\ reqUser' = request.user
            /\ stage' = "restrictTo"
            /\ UNCHANGED response
  /\ UNCHANGED <<request, stored, ran>>
  /\ UNCHANGED sync
  /\ UNCHANGED registry
  /\ UNCHANGED auth
  /\ UNCHANGED boot

\* a route that lets every role through
includesAnyRole(roles, role) == TRUE

\* roles.includes(req.user.role)
includes(roles, role) == role \in roles

\* restrictTo('admin', 'manager'): 403 unless the role is one of them
restrictTo(roles) ==
  /\ stage = "restrictTo"
  /\ IF ~includes(roles, reqUser.role)
       THEN response' = 403 /\ stage' = "responded"
       ELSE stage' = "deleteClient" /\ UNCHANGED response
  /\ UNCHANGED <<request, reqUser, stored, ran>>
  /\ UNCHANGED sync
  /\ UNCHANGED registry
  /\ UNCHANGED auth
  /\ UNCHANGED boot

\* clientController.deleteClient: findByIdAndDelete, 404 for an unknown id, 400
\* when the id is no ObjectId (the cast throws), 204 after the deletion
deleteClientHandler ==
  /\ stage = "deleteClient"
  /\ ran' = TRUE
  /\ stage' = "responded"
  /\ IF IsTempId(request.id)
       THEN response' = 400 /\ UNCHANGED stored
       ELSE IF request.id \notin stored
         THEN response' = 404 /\ UNCHANGED stored
         ELSE response' = 204 /\ stored' = stored \ {request.id}
  /\ UNCHANGED <<request, reqUser>>
  /\ UNCHANGED sync
  /\ UNCHANGED registry
  /\ UNCHANGED auth
  /\ UNCHANGED boot

\* router.use(protect); router.route('/:id').delete(restrictTo('admin',
\* 'manager'), clientController.deleteClient)
ServerNext ==
  \/ protect
  \/ restrictTo({"admin", "manager"})
  \/ deleteClientHandler

\* a request arrives at the router
ServerInit ==
  /\ SyncInit
  /\ RegistryInit
  /\ AuthIdle
  /\ BootIdle
  /\ request \in Requests
  /\ stage = "protect"
  /\ reqUser = NoUser
  /\ response = 0
  /\ stored = Documents
  /\ ran = FALSE

ServerSpec == ServerInit /\ [][ServerNext]_vars

TypeOK ==
  /\ onLine \in BOOLEAN
  /\ Len(calls) <= MaxCalls
  /\ now \in 0..MaxClock

\* ================================================================= claims
Ops == 1..Len(calls)
Last(q) == q[Len(q)]
InQueue(q, c) == \E i \in 1..Len(q) : q[i].op = c
Times(q, c) == Cardinality({i \in 1..Len(q) : q[i] = c})
Before(q, a, b) == \E x, y \in 1..Len(q) : x < y /\ q[x] = a /\ q[y] = b
InProgress == {d \in 1..Len(drains) : drains[d].pc = "await"}
IssuedOffline(c) == calls[c].pc = "done" /\ calls[c].live = "none" /\ calls[c].status = "queued"

\* C1: a mutation issued while online whose live attempt ended in a transient
\* failure (no response, statusCode 0, or statusCode >= 500) has been pushed on
\* the queue exactly once and performOperation returned status 'queued'.
C1_TransientLiveAttemptIsQueued ==
  \A c \in Ops :
    (calls[c].pc = "done" /\ calls[c].live = "transient")
      => (calls[c].status = "queued" /\ Times(enqueued, c) = 1)

\* C2: the step that handles a 4xx answer to a live attempt leaves the queue, the
\* persisted queue, the mirror and the persisted cache unchanged, notifies no
\* listener, and the caller gets an error result: neither a record nor 'queued'.
C2_ClientErrorChangesNothing ==
  [][\A c \in Ops :
       (calls[c].pc = "await" /\ calls'[c].pc = "done" /\ calls'[c].live = "rejected")
         => /\ queue' = queue
            /\ offline_queue' = offline_queue
            /\ clients' = clients
            /\ cached_clients' = cached_clients
            /\ notified' = notified
            /\ calls'[c].status = "error"
            /\ calls'[c].ret.tag # "client"
            /\ calls'[c].ret # Bool(TRUE)]_vars

C2_Witness ==
  \E c \in Ops : calls[c].pc = "done" /\ calls[c].live = "rejected"

\* C3: when the drain delivers a create that was queued while offline, the mirror
\* holds exactly one record for that client (no other call used its name): it
\* has a server identifier and no provisional flag, the temp_ record is gone.
C3_DrainedCreateLeavesOneRecord ==
  [][\A c \in Ops :
       (/\ IssuedOffline(c)
        /\ calls[c].kind = "create"
        /\ \A c2 \in Ops \ {c} : calls[c2].data # calls[c].data
        /\ Len(answered'[c]) > Len(answered[c])
        /\ Last(answered'[c]) = "success")
         => LET mine == SelectSeq(clients', LAMBDA x : x.name = calls[c].data)
            IN /\ Len(mine) = 1
               /\ ~IsTempId(mine[1]._id)
               /\ ~mine[1]._isTemp]_vars

\* C4: when a drain ends, every operation of its snapshot whose attempt ended in
\* a transient failure (statusCode 0 or >= 500) is in the queue again, in memory
\* and in localStorage.
C4_TransientFailureIsRequeued ==
  [][\A d \in 1..Len(drains) :
       (drains[d].pc = "await" /\ drains'[d].pc = "done")
         => \A i \in 1..Len(drains[d].operations) :
              LET c == drains[d].operations[i].op
              IN Last(answered'[c]) = "transient"
                   => InQueue(queue', c) /\ InQueue(offline_queue', c)]_vars

\* C5: within one drain, for operations A and B of its snapshot with A enqueued
\* before B, the request of B has been issued only if the response of A has
\* been received.
C5_DrainSendsInEnqueueOrder ==
  \A d \in 1..Len(drains) :
    \A i, j \in 1..Len(drains[d].operations) :
      LET a == drains[d].operations[i].op
          b == drains[d].operations[j].op
      IN (Before(enqueued, a, b) /\ sent[b] > 0) => Len(answered[a]) > 0

C5_Witness ==
  \E d \in 1..Len(drains) :
    /\ Len(drains[d].operations) >= 2
    /\ sent[drains[d].operations[2].op] > 0
    /\ Before(enqueued, drains[d].operations[1].op, drains[d].operations[2].op)

\* C6: over the whole run, for operations A and B with A enqueued before B, the
\* request of B has been issued only if the request of A has completed.
C6_QueuedOperationsNeverOverlap ==
  \A x, y \in 1..Len(enqueued) :
    (x < y /\ sent[enqueued[y]] > 0) => Len(answered[enqueued[x]]) > 0

\* C7: however often and whenever syncWithServer is invoked, also while a drain
\* is in progress, no operation of a snapshot is sent twice, and when the drain
\* that took it ends each has been sent exactly once.
C7_EachOperationSentOnce ==
  \A d \in 1..Len(drains) :
    \A i \in 1..Len(drains[d].operations) :
      LET c == drains[d].operations[i].op
      IN /\ sent[c] <= 1
         /\ drains[d].pc = "done" => sent[c] = 1
         /\ \A d2 \in 1..Len(drains) :
              d2 # d => ~InQueue(drains[d2].operations, c)

\* syncWithServer has just been invoked again while a drain over two or more
\* operations is in progress
C7_Witness ==
  /\ invoked = "empty"
  /\ \E d \in InProgress : Len(drains[d].operations) >= 2

\* C8: at most one drain is in progress (between its snapshot and the end of
\* its loop) in any state.
C8_OneDrainAtATime == Cardinality(InProgress) <= 1

\* C9: createClient called while offline sends no request, appends exactly one
\* operation to the queue and exactly one record to the mirror, and that record
\* has a temp_ identifier and _isTemp true.
C9_OfflineCreateIsProvisional ==
  [][(~onLine /\ Len(calls') = Len(calls) + 1 /\ Last(calls').kind = "create")
       => LET c == Len(calls')
          IN /\ sent' = Append(sent, 0)
             /\ Len(queue') = Len(queue) + 1
             /\ SubSeq(queue', 1, Len(queue)) = queue
             /\ Last(queue').op = c
             /\ Last(queue').method = "POST"
             /\ Len(clients') = Len(clients) + 1
             /\ SubSeq(clients', 1, Len(clients)) = clients
             /\ IsTempId(Last(clients')._id)
             /\ Last(clients')._isTemp]_vars

C9_Witness ==
  \E c \in Ops :
    /\ IssuedOffline(c)
    /\ calls[c].kind = "create"
    /\ sent[c] = 0
    /\ InQueue(queue, c)
    /\ \E i \in 1..Len(clients) : IsTempId(clients[i]._id) /\ clients[i]._isTemp

\* C10: an operation issued while offline and drained with a success response
\* has been sent exactly once in the whole run.
C10_OfflineOperationSentOnce ==
  \A c \in Ops :
    (IssuedOffline(c) /\ \E k \in 1..Len(answered[c]) : answered[c][k] = "success")
      => (sent[c] = 1 /\ Len(answered[c]) = 1)

C10_Witness ==
  \E c \in Ops : IssuedOffline(c) /\ answered[c] = <<"success">> /\ sent[c] = 1

\* what performOperation returns to call c when the backend confirms its request
ConfirmedResult(c) ==
  apiRequest([code |-> 200, json |-> TRUE],
             Accepted(Operation(c, calls[c].kind, calls[c].id, calls[c].data)))

\* C11: the value a mutation returned when it was queued differs from the value
\* the same call returns when the backend confirms it, so the caller can tell
\* "queued" from "confirmed".
C11_QueuedReturnDiffersFromConfirmed ==
  \A c \in Ops :
    (calls[c].pc = "done" /\ calls[c].status = "queued")
      => calls[c].ret # Then(calls[c], clients, ConfirmedResult(c), now).ret

\* C12: a step in which syncWithServer is invoked with an empty queue sends no
\* request, invokes no callback, starts no drain, and leaves the queue, the
\* persisted queue, the mirror and the persisted cache as they were.
C12_EmptyDrainIsNoOp ==
  [][invoked' = "empty"
       => /\ sent' = sent
          /\ called' = called
          /\ drains' = drains
          /\ queue' = queue
          /\ offline_queue' = offline_queue
          /\ clients' = clients
          /\ cached_clients' = cached_clients
          /\ notified' = notified]_vars

\* syncWithServer has just been invoked with an empty queue while the mirror
\* holds records
C12_Witness == invoked = "empty" /\ Len(queue) = 0 /\ Len(clients) > 0

\* a request of a drain that held operation c was abandoned by a page reload
Abandoned(c) ==
  \E d \in 1..Len(drains) : drains[d].pc = "lost" /\ InQueue(drains[d].operations, c)

\* C13: an operation queued while offline is eventually sent once the browser
\* is online again, provided every request returns (no reload abandons a request
\* of the drain that holds the operation).
C13_QueuedOperationEventuallySent ==
  \A c \in 1..MaxCalls :
    (c \in Ops /\ IssuedOffline(c) /\ onLine)
      ~> (c \in Ops /\ (sent[c] > 0 \/ Abandoned(c)))

\* the second operation of a drain has been sent, no request was abandoned
C13_Witness ==
  \E d \in 1..Len(drains) :
    /\ Len(drains[d].operations) >= 2
    /\ drains[d].pc = "done"
    /\ \A i \in 1..Len(drains[d].operations) :
         /\ IssuedOffline(drains[d].operations[i].op)
         /\ sent[drains[d].operations[i].op] > 0
         /\ ~Abandoned(drains[d].operations[i].op)

\* C14: after a notification every registered listener has been called, also
\* those registered after a listener that throws, and no exception reached the
\* caller of _notifyListeners (ClientService and AuthService).
C14_ThrowingListenerIsIsolated ==
  \A svc \in Services :
    publishing = svc
      => /\ \A i \in 1..Len(listeners[svc]) : received[svc][i]
         /\ ~escaped[svc]

\* a notification reached a listener registered after one that throws
C14_Witness ==
  \E svc \in Services :
    /\ publishing = svc
    /\ \E i, j \in 1..Len(listeners[svc]) :
         i < j /\ listeners[svc][i] = "throws" /\ received[svc][j]

\* operation c was answered with a success or with a 4xx rejection
Settled(c) ==
  \E k \in 1..Len(answered[c]) : answered[c][k] \in {"success", "rejected"}

\* the operations a stop of the process at this state loses: enqueued, not
\* settled, and not in the persisted queue
Unpersisted ==
  {c \in Ops : Times(enqueued, c) > 0 /\ ~Settled(c) /\ ~InQueue(offline_queue, c)}

\* C15: in every state at most one enqueued operation that has not been answered
\* with success or a 4xx rejection is missing from the persisted offline_queue.
C15_AtMostOneOperationUnpersisted == Cardinality(Unpersisted) <= 1

\* the request carries a token that verifies, of a user that exists and has not
\* changed the password since
Authenticated(req) ==
  /\ \/ req.authorization.scheme = "Bearer" /\ req.authorization.token = "valid"
     \/ req.authorization.scheme # "Bearer" /\ req.jwt = "valid"
  /\ req.user.exists
  /\ ~req.user.changedPassword

MayDelete(req) == Authenticated(req) /\ req.user.role \in {"admin", "manager"}

\* C16: clientController.deleteClient runs only for an authenticated request of
\* an admin or a manager; any other request is answered 401 or 403 and the
\* database keeps every document.
C16_DeleteOnlyForAdminOrManager ==
  /\ ran => MayDelete(request)
  /\ (stage = "responded" /\ ~MayDelete(request))
       => (response \in {401, 403} /\ stored = Documents)

\* an authenticated technician asked for the deletion of a stored document and
\* was refused
C16_Witness ==
  /\ stage = "responded"
  /\ Authenticated(request)
  /\ request.user.role = "technician"
  /\ request.id \in Documents
  /\ response = 403
  /\ ~ran

\* what JSON keeps of a queue entry: endpoint and options
Persisted(e) == [op |-> e.op, endpoint |-> e.endpoint, method |-> e.method, body |-> e.body]

\* C17: in every state the persisted offline_queue holds the operations of the
\* in-memory queue, in the same order, with the same endpoint and options.
C17_PersistedQueueMirrorsQueue ==
  /\ Len(offline_queue) = Len(queue)
  /\ \A i \in 1..Len(queue) : Persisted(offline_queue[i]) = Persisted(queue[i])

\* two operations are queued, in memory and in localStorage
C17_Witness == Len(queue) = 2 /\ Len(offline_queue) = 2

\* C18: when a mutation returns with its operation queued, the mirror shows it:
\* a create added a provisional record, an update left a record of the target id
\* flagged provisional with the new fields, a delete left no record of the
\* target id; and the listeners were notified.
C18_QueuedMutationShowsInMirror ==
  [][(Len(calls') = Len(calls) + 1 /\ Last(calls').status = "queued")
       => LET call == Last(calls')
              shows(P(_)) == \E i \in 1..Len(clients') : P(clients'[i])
              provisional(x) == x._isTemp /\ x.name = call.data
              updated(x) == x._id = call.id /\ x._isTemp /\ x.name = call.data
              target(x) == x._id = call.id
          IN /\ call.kind = "create" => (Len(clients') = Len(clients) + 1 /\ shows(provisional))
             /\ call.kind = "update" => shows(updated)
             /\ call.kind = "delete" => ~shows(target)
             /\ notified' = notified + 1]_vars

\* C19: in every state a record of the mirror has _isTemp set if and only if its
\* identifier is a temp_ identifier.
C19_ProvisionalFlagIffTempId ==
  \A i \in 1..Len(clients) : clients[i]._isTemp <=> IsTempId(clients[i]._id)

\* C20: in every state no two records of the mirror share an identifier.
C20_MirrorIdsAreUnique ==
  \A i, j \in 1..Len(clients) : clients[i]._id = clients[j]._id => i = j

\* operation c is queued, or taken by a drain and not answered yet
Pending(c) == IssuedOffline(c) /\ answered[c] = <<>>

\* no deleteClient call named identifier id
NotDeleted(id) == \A c \in Ops : ~(calls[c].kind = "delete" /\ calls[c].id = id)

\* C21: while a queued create or update is pending and no caller deleted its
\* record, the mirror holds the provisional record the mutation returned: a
\* record with that identifier and _isTemp set.
C21_PendingEffectStaysVisible ==
  \A c \in Ops :
    (/\ Pending(c)
     /\ calls[c].kind \in {"create", "update"}
     /\ calls[c].ret.tag = "client"
     /\ NotDeleted(calls[c].ret.client._id))
      => \E i \in 1..Len(clients) :
           clients[i]._id = calls[c].ret.client._id /\ clients[i]._isTemp

\* C22: when the backend accepts the live attempt of a create or an update, the
\* mirror holds the record the backend returned, without provisional flag, the
\* listeners are notified and the method returns that record, also when the
\* target was not in the mirror before.
C22_AcceptedLiveMutationIsUpserted ==
  [][\A c \in Ops :
       (/\ calls[c].pc = "await"
        /\ calls'[c].pc = "done"
        /\ calls'[c].live = "success"
        /\ calls[c].kind \in {"create", "update"})
         => LET record == ConfirmedResult(c).client
            IN /\ \E i \in 1..Len(clients') : clients'[i] = record
               /\ ~record._isTemp
               /\ calls'[c].ret = Record(record)
               /\ notified' = notified + 1]_vars

\* C23: a step that changes ClientService.clients leaves 'cached_clients' equal
\* to the mirror and notifies the listeners.
C23_MirrorChangeIsPersistedAndNotified ==
  [][clients' # clients
       => (cached_clients' = StringifyClients(clients') /\ notified' = notified + 1)]_vars

\* C24: when a drain delivers an operation that was queued while offline, the
\* mirror changes as the completion callback of the operation changes it,
\* whether or not the page was reloaded between the call and the drain.
C24_DrainAfterRestartHasSameEffect ==
  [][\A c \in Ops :
       (/\ IssuedOffline(c)
        /\ Len(answered'[c]) > Len(answered[c])
        /\ Last(answered'[c]) = "success")
         => clients' = Callback(calls[c], clients, ConfirmedResult(c)).clients]_vars

\* C25: an operation that is in the live queue is in the snapshot of no drain
\* and no request was issued for it; this covers the operations enqueued while
\* a drain is in progress.
C25_EnqueuedDuringDrainStaysQueued ==
  \A c \in Ops :
    InQueue(queue, c)
      => /\ sent[c] = 0
         /\ \A d \in 1..Len(drains) : ~InQueue(drains[d].operations, c)

\* an operation was enqueued while a drain is in progress
C25_Witness ==
  \E c \in Ops, d \in InProgress :
    /\ InQueue(queue, c)
    /\ ~InQueue(drains[d].operations, c)
    /\ \E x, y \in 1..Len(enqueued) :
         x < y /\ enqueued[y] = c /\ InQueue(drains[d].operations, enqueued[x])

\* C26: whatever the response to an operation of a drain was (success, transient
\* failure, 4xx rejection) and whether or not its completion callback threw, the
\* drain issues the request of the next operation of its snapshot in the same
\* step, and ends only after the last one.
C26_DrainAttemptsEveryOperation ==
  [][\A d \in 1..Len(drains) :
       (drains[d].pc = "await" /\ drains'[d] # drains[d] /\ drains'[d].pc # "lost")
         => LET i == drains[d].i
                operations == drains[d].operations
            IN IF i < Len(operations)
                 THEN /\ drains'[d].pc = "await"
                      /\ drains'[d].i = i + 1
                      /\ sent'[operations[i + 1].op] = sent[operations[i + 1].op] + 1
                 ELSE drains'[d].pc = "done"]_vars

\* the callback of the first operation of a drain threw and the request of the
\* second one is in flight
C26_Witness ==
  \E d \in InProgress :
    /\ drains[d].thrown
    /\ drains[d].i = 2
    /\ sent[drains[d].operations[2].op] = 1

\* drain d ended after one request for each operation of its snapshot
Completed(d) ==
  /\ drains[d].pc = "done"
  /\ drains[d].i = Len(drains[d].operations)
  /\ \A k \in 1..Len(drains[d].operations) : sent[drains[d].operations[k].op] = 1

\* C27: provided each request returns, a drain in progress ends, having issued
\* exactly one request for each operation of its snapshot (or a reload abandons
\* its request in flight).
C27_DrainTerminates ==
  \A d \in 1..MaxCalls :
    (d \in 1..Len(drains) /\ drains[d].pc = "await")
      ~> (d \in 1..Len(drains) /\ (drains[d].pc = "lost" \/ Completed(d)))

\* a drain has ended while an operation enqueued after its snapshot is still in
\* the queue
C27_Witness ==
  \E d \in 1..Len(drains), c \in Ops :
    /\ Completed(d)
    /\ InQueue(queue, c)
    /\ \A k \in 1..Len(drains[d].operations) :
         Before(enqueued, drains[d].operations[k].op, c)

\* the backend answered a request of operation c with a 4xx rejection
Rejected(c) == \E k \in 1..Len(answered[c]) : answered[c][k] = "rejected"

\* C28: a queued operation whose request a drain sent and the backend rejected
\* with a 4xx is in neither the queue in memory nor the persisted queue, and
\* the one request it had stays its only one.
C28_RejectedAtDrainIsDropped ==
  \A c \in Ops :
    (IssuedOffline(c) /\ Rejected(c))
      => /\ ~InQueue(queue, c)
         /\ ~InQueue(offline_queue, c)
         /\ sent[c] = 1

\* an operation was rejected in one drain and a later drain has taken its
\* snapshot without it
C28_Witness ==
  \E c \in Ops, d, e \in 1..Len(drains) :
    /\ IssuedOffline(c) /\ Rejected(c)
    /\ d < e
    /\ InQueue(drains[d].operations, c)
    /\ ~InQueue(drains[e].operations, c)

\* the live attempts of mutations of an existing client whose request has no
\* response yet
InFlight == {c \in Ops : calls[c].pc = "await" /\ calls[c].kind # "create"}

\* C29: no two mutations of the same client id have their requests in flight
\* at the same time.
C29_OneRequestPerClientInFlight ==
  \A a, b \in InFlight : calls[a].id = calls[b].id => a = b

\* C30: the completion callback of a queued operation has been invoked at most
\* once, and no more often than responses to requests of that operation have
\* been received.
C30_CallbackAtMostOnceAfterResponse ==
  \A c \in Ops :
    IssuedOffline(c) => (called[c] <= 1 /\ called[c] <= Len(answered[c]))

\* a drain has received the response for a queued operation and invoked its
\* callback, and has ended
C30_Witness ==
  \E d \in 1..Len(drains) :
    /\ drains[d].pc = "done"
    /\ \E k \in 1..Len(drains[d].operations) :
         LET c == drains[d].operations[k].op
         IN IssuedOffline(c) /\ called[c] = 1 /\ Len(answered[c]) = 1

\* C31: the latest notification of a service called every listener registered
\* when it started, once each, in registration order.
C31_PublishReachesEveryListenerOnce ==
  \A svc \in Services :
    delivered[svc].order = [i \in 1..delivered[svc].start |-> i]

\* C32: a step in which syncWithServer is invoked while navigator.onLine is
\* false sends no request, starts no drain, and leaves the queue, the persisted
\* queue and the mirror as they were.
C32_OfflineSyncIsNoOp ==
  [][invoked' = "offline"
       => /\ sent' = sent
          /\ drains' = drains
          /\ queue' = queue
          /\ offline_queue' = offline_queue
          /\ clients' = clients]_vars

\* syncWithServer has just been invoked offline with operations in the queue
\* and records in the mirror
C32_Witness == invoked = "offline" /\ ~onLine /\ Len(queue) > 0 /\ Len(clients) > 0

\* what fetch sees when clientController.deleteClient accepted the DELETE:
\* status 204, no body
NoContent == [code |-> 204, json |-> FALSE]

\* C33: a step in which a deleteClient(id) called online gets the backend's 204
\* ends with the call returning true and the record id in neither the mirror nor
\* the persisted cache.
C33_AcceptedLiveDeleteRemovesRecord ==
  [][\A c \in Ops :
       (calls[c].kind = "delete" /\ ~IsTempId(calls[c].id) /\ LiveResponse(c, NoContent))
         => /\ calls'[c].ret = Bool(TRUE)
            /\ findIndex(clients', calls[c].id) = 0
            /\ findIndex(cached_clients', calls[c].id) = 0]_vars

\* fetch got no response: the backend is unreachable
Unreachable == [code |-> 0, user |-> ""]

\* C34: a step in which the getMe request of init gets no response keeps the
\* stored token, and a step of init that clears the token is one in which the
\* backend answered with a 4xx.
C34_InitKeepsTokenWhenUnreachable ==
  [][\A k \in 1..Len(pending) :
       (pending[k].op = "init" /\ jwt # NoJwt /\ AuthResponse(k, Unreachable))
         => jwt' = jwt /\ token' = token]_vars

\* C39: whenever AuthService.currentUser is set, AuthService.token is set and
\* equals the 'jwt' entry of localStorage.
C39_UserImpliesStoredToken ==
  currentUser # "" => (token # NoJwt /\ token = jwt)

\* what apiRequest settles with is the parsed body of a success, or an object
\* with status 'error' whose statusCode is the HTTP status of a JSON error
\* response and 0 otherwise
Settles(r, body) ==
  LET res == apiRequest(r, body)
  IN /\ ~apiRequestRejects(r)
     /\ IF ok(r) /\ r.json
          THEN res.status = "success" /\ res.client = body
          ELSE /\ res.status = "error"
               /\ res.statusCode = (IF r.code # 0 /\ r.json THEN r.code ELSE 0)

C36_NoRequestOnTempId ==
  /\ \A d \in InProgress : ~IsTempId(drains[d].operations[drains[d].i].endpoint.id)
  /\ \A c \in Ops : calls[c].pc = "await" => ~IsTempId(calls[c].id)

\* the queue is empty, no drain is in progress and no request is in flight
Quiescent ==
  /\ Len(queue) = 0
  /\ InProgress = {}
  /\ \A c \in Ops : calls[c].pc # "await"
  /\ invoked = ""

\* C37: at quiescence no record of the mirror is flagged provisional or has a
\* temp_ identifier.
C37_QuiescentMirrorHasNoProvisionalData ==
  Quiescent => \A i \in 1..Len(clients) : ~clients[i]._isTemp /\ ~IsTempId(clients[i]._id)

\* the backend's answer to a request it rejects
BadRequest == [code |-> 400, json |-> TRUE]

\* C38: the step in which a drain gets a 4xx for a queued delete leaves the
\* mirror and the persisted cache as the optimistic delete left them, the
\* record still absent, and the operation is in neither queue.
C38_RejectedDeleteIsNotRolledBack ==
  [][\A d \in InProgress :
       LET op == drains[d].operations[drains[d].i]
       IN (op.method = "DELETE" /\ DrainResponse(d, BadRequest))
            => /\ clients' = clients
               /\ cached_clients' = cached_clients
               /\ findIndex(clients, op.endpoint.id) = 0
                    => findIndex(clients', op.endpoint.id) = 0
               /\ ~InQueue(queue', op.op)
               /\ ~InQueue(offline_queue', op.op)]_vars

\* a stored record was deleted offline, the drain's request was rejected, and
\* the record is absent from the mirror and the cache
C38_Witness ==
  \E c, a \in Ops :
    /\ IssuedOffline(c) /\ calls[c].kind = "delete" /\ Rejected(c)
    /\ calls[a].kind = "create" /\ calls[a].ret.tag = "client"
    /\ calls[a].ret.client._id = calls[c].id
    /\ findIndex(clients, calls[c].id) = 0
    /\ findIndex(cached_clients, calls[c].id) = 0
    /\ ~InQueue(queue, c)

\* C40: the step in which the getAllClients request of init ends without a
\* response while a persisted cache exists leaves the mirror equal to the
\* persisted cache and the queue equal, entry by entry, to the persisted queue.
C40_UnreachableInitRestoresCacheAndQueue ==
  [][\A list \in Listings :
       (cached_clients # <<>> /\ InitResponse([code |-> 0, json |-> FALSE], list))
         => /\ clients' = cached_clients'
            /\ Len(queue') = Len(offline_queue')
            /\ \A i \in 1..Len(queue') :
                 Persisted(queue'[i]) = Persisted(offline_queue'[i])]_vars

\* init has ended offline: the mirror holds the provisional record of the cache
\* and the queue the two operations an earlier page persisted
C40_Witness ==
  /\ loads > 0 /\ loading = "" /\ ~onLine
  /\ Len(queue) = 2 /\ Len(offline_queue) = 2
  /\ \A c \in Ops : calls[c].pc = "done"
  /\ clients = cached_clients
  /\ \E i \in 1..Len(clients) : clients[i]._isTemp

====
